---------------------------- MODULE Spec2Model ----------------------------
(***************************************************************************)
(* State-machine model of the deepseek-ai-console components:              *)
(*   - the streaming handler of ChatInterface (SambaNova version), whose   *)
(*     read loop is shared verbatim by DocumentAnalyzer.analyzeDocuments   *)
(*     and VisionAnalyzer.handleAnalyze;                                   *)
(*   - removeBackground / handleRemoveBackground of ImageEditor;           *)
(*   - handleGenerate of ImageGenerator (Pollinations version) with the    *)
(*     image loads it starts;                                              *)
(*   - handleFileUpload and removeFile of DocumentAnalyzer;                *)
(*   - the image source (URL or file) of VisionAnalyzer.                   *)
(*                                                                         *)
(* Text is a sequence of lexical units (one-character strings, plus a few  *)
(* multi-character units for the fixed pieces of the JSON payload).  The   *)
(* transport may cut the byte stream between any two units.                *)
(***************************************************************************)
EXTENDS Integers, Sequences, FiniteSets, TLC

VARIABLES
    \* ---- ChatInterface component state (useState) ----
    prompt,        \* the prompt text
    response,      \* the displayed response
    isLoading,     \* the loading flag
    mounted,       \* the component is mounted
    \* ---- one invocation of handleGenerate ----
    pc,            \* where the async handler is suspended
    wire,          \* the byte stream the server sends for this response
    pos,           \* how much of wire reader.read() has delivered so far
    fullResponse,  \* the local accumulator of the read loop
    httpStatus,    \* response.status of the current response
    \* ---- observation of the invocation (history) ----
    emitted,       \* the values passed to setResponse by the read loop
    extracted,     \* the truthy content fragments the loop extracted
    parsed,        \* the payloads handed to JSON.parse for the latest chunk
    doneAt,        \* how many fragments had been extracted when the first
                   \* '[DONE]' line was met (-1: none met yet)
    toasts,        \* the toast notifications issued by this invocation
    reads,         \* reader.read() calls issued by this invocation
    fetches,       \* fetch() calls issued by this invocation
    outcome,       \* how the invocation ended
    inFlight,      \* calls of handleGenerate that issued a request and have
                   \* not returned yet
    \* ---- ImageEditor ----
    isProcessing,  \* the processing flag
    editedImage,   \* the edited image (the pixels behind the object URL)
    rbPc,          \* where handleRemoveBackground is suspended
    image,         \* the loaded image element
    canvas,        \* the working canvas of removeBackground
    wasResized,    \* what resizeImageIfNeeded returned for this canvas
    mask,          \* result[0].mask.data of the segmentation result
    outputCanvas,  \* the output canvas, with the pixel data put on it
    blobUrls,      \* how many object URLs of result blobs were created
    rbToasts,      \* the toast notifications of this handleRemoveBackground
    rbOutcome,     \* how this handleRemoveBackground ended
    \* ---- ImageGenerator (Pollinations version) ----
    igPrompt,       \* the image prompt
    igIsLoading,    \* the loading flag
    generatedImage, \* the URL of the displayed image
    igPending,      \* the Image objects whose load has not completed
    igStarted,      \* how many requests handleGenerate has started
    igLatestUrl,    \* the URL of the request started last
    igToasts,       \* the toast notifications issued so far
    \* ---- DocumentAnalyzer: the uploaded files ----
    uploadedFiles,  \* the list of uploaded files (the type of each)
    isUploading,    \* the uploading flag
    uploads,        \* the calls of handleFileUpload suspended at a FileReader
    upToasts,       \* the toast notifications of the latest step
    \* ---- VisionAnalyzer (URL-or-file version) ----
    imageUrl,       \* the image URL
    imageFile,      \* the uploaded image file
    vaPrompt,       \* the question about the image
    analysis,       \* the displayed analysis
    vaIsLoading,    \* the loading flag
    vaToast         \* the toast notification of the latest step

chatVars == <<prompt, response, isLoading, mounted, pc, wire, pos, fullResponse,
              httpStatus, emitted, extracted, parsed, doneAt, toasts, reads,
              fetches, outcome, inFlight>>
editorVars == <<isProcessing, editedImage, rbPc, image, canvas, wasResized,
                mask, outputCanvas, blobUrls, rbToasts, rbOutcome>>
generatorVars == <<igPrompt, igIsLoading, generatedImage, igPending, igStarted,
                   igLatestUrl, igToasts>>
uploadVars == <<uploadedFiles, isUploading, uploads, upToasts>>
visionVars == <<imageUrl, imageFile, vaPrompt, analysis, vaIsLoading, vaToast>>
panelVars == <<generatorVars, uploadVars, visionVars>>
vars == <<chatVars, editorVars, panelVars>>

-----------------------------------------------------------------------------
(* Bounds of the model *)

\* the sides of an image within this distance of MAX_IMAGE_DIMENSION are all
\* tried
ResizeWindow == 2
\* at most this many lines in one response body
MaxLines == 2
\* at most this many reader.read() calls counted per invocation
MaxReads == 3
\* at most this many pixels in an image
MaxPixels == 4
\* at most this many result blobs (object URLs) per session
MaxBlobs == 2
\* at most this many image requests per session
MaxRequests == 3
\* at most this many files picked in one file-selection event
MaxPick == 4

-----------------------------------------------------------------------------
(* Text helpers *)

NL == "\n"

\* Array.prototype.reduce with +: the concatenation of a sequence of texts
RECURSIVE Flatten(_)
Flatten(ss) == IF ss = <<>> THEN <<>> ELSE Head(ss) \o Flatten(Tail(ss))

\* String.prototype.startsWith
StartsWith(s, p) == Len(s) >= Len(p) /\ SubSeq(s, 1, Len(p)) = p

\* String.prototype.slice(n)
Slice(s, n) == SubSeq(s, n + 1, Len(s))

\* String.prototype.includes
Includes(s, t) == \E i \in 0..(Len(s) - Len(t)) : SubSeq(s, i + 1, i + Len(t)) = t

\* String.prototype.trim, on the prompt samples (whitespace is " ")
RECURSIVE TrimLeft(_)
TrimLeft(s) == IF s # <<>> /\ Head(s) = " " THEN TrimLeft(Tail(s)) ELSE s
RECURSIVE TrimRight(_)
TrimRight(s) ==
    IF s # <<>> /\ s[Len(s)] = " " THEN TrimRight(SubSeq(s, 1, Len(s) - 1)) ELSE s
Trim(s) == TrimRight(TrimLeft(s))

\* String.prototype.split('\n'): the pieces between the separators
RECURSIVE SplitFrom(_, _)
SplitFrom(s, cur) ==
    IF s = <<>> THEN <<cur>>
    ELSE IF Head(s) = NL THEN <<cur>> \o SplitFrom(Tail(s), <<>>)
    ELSE SplitFrom(Tail(s), Append(cur, Head(s)))
Split(s) == SplitFrom(s, <<>>)

-----------------------------------------------------------------------------
(* The server-sent-event stream and its JSON payloads *)

\* the literal prefix of line.startsWith('data: ')
DataPrefix == <<"d", "a", "t", "a", ":", " ">>
\* the 6 of line.slice(6)
PrefixLen == 6
\* the sentinel '[DONE]'
DoneSentinel == <<"[DONE]">>
\* {"choices":[{"delta":{"content":"   ...   "}}]}
JsonOpen == "{\"choices\":[{\"delta\":{\"content\":\""
JsonClose == "\"}}]}"
\* {} : an object with no choices
JsonEmptyObject == "{}"
\* an object whose choices array is empty
JsonEmptyChoices == "{\"choices\":[]}"
\* an object whose first choice has a delta without content
JsonEmptyDelta == "{\"choices\":[{\"delta\":{}}]}"
\* the characters content fragments are made of
ContentChars == {"a", "b"}

\* a JSON object value, as the partial function from its keys
NoFields == [k \in {} |-> 0]
DeltaDoc(c) == [choices |-> <<[delta |-> [content |-> c]]>>]

IsDeltaDoc(d) ==
    /\ Len(d) >= 2
    /\ d[1] = JsonOpen
    /\ d[Len(d)] = JsonClose
    /\ \A i \in 2..(Len(d) - 1) : d[i] \in ContentChars

\* JSON.parse: the parsed value, or a thrown SyntaxError
JSONParse(d) ==
    IF IsDeltaDoc(d) THEN [ok |-> TRUE, value |-> DeltaDoc(SubSeq(d, 2, Len(d) - 1))]
    ELSE IF d = <<JsonEmptyObject>> THEN [ok |-> TRUE, value |-> NoFields]
    ELSE IF d = <<JsonEmptyChoices>> THEN [ok |-> TRUE, value |-> [choices |-> <<>>]]
    ELSE IF d = <<JsonEmptyDelta>>
         THEN [ok |-> TRUE, value |-> [choices |-> <<[delta |-> NoFields]>>]]
    ELSE [ok |-> FALSE]

\* parsed.choices?.[0]?.delta?.content : the content, or undefined
ContentOf(v) ==
    IF "choices" \notin DOMAIN v THEN [defined |-> FALSE, text |-> <<>>]
    ELSE IF Len(v.choices) = 0 THEN [defined |-> FALSE, text |-> <<>>]
    ELSE IF "delta" \notin DOMAIN v.choices[1] THEN [defined |-> FALSE, text |-> <<>>]
    ELSE IF "content" \notin DOMAIN v.choices[1].delta
         THEN [defined |-> FALSE, text |-> <<>>]
    ELSE [defined |-> TRUE, text |-> v.choices[1].delta.content]

\* a test that takes the empty string for content too
TruthyIfDefined(c) == c.defined

\* if (content): undefined and the empty string are falsy
Truthy(c) == c.defined /\ c.text # <<>>

\* a slip: the accumulator is overwritten by the fragment (= for +=)
AccumulateOverwrites(full, content) == content

\* fullResponse += content
Accumulate(full, content) == full \o content

\* a slip: the sentinel test is missing
IsDoneNever(data) == FALSE

\* if (data === '[DONE]') continue;
IsDone(data) == data = DoneSentinel

\* The loop state threaded through the lines of the chunks: the accumulator
\* and what the loop did (setResponse calls, fragments, JSON.parse calls).
LoopState(full, em, ex, pa, da) ==
    [full |-> full, emitted |-> em, extracted |-> ex, parsed |-> pa, doneAt |-> da]

\* a slip: the catch block shows the raw payload instead of skipping it
OnParseErrorAppendsRaw(st, data) ==
    [st EXCEPT !.full = @ \o data, !.emitted = Append(@, st.full \o data)]

\* catch (e) { // Skip invalid JSON lines }
OnParseError(st, data) == st

\* a loop body without the test of the prefix: every line is sliced and
\* parsed
ProcessLineUntested(st, line) ==
    LET data == Slice(line, PrefixLen) IN
    IF IsDone(data)
    THEN [st EXCEPT !.doneAt = IF @ = -1 THEN Len(st.extracted) ELSE @]
    ELSE LET r  == JSONParse(data)
             st1 == [st EXCEPT !.parsed = @ \cup {data}]
         IN  IF ~r.ok THEN OnParseError(st1, data)
             ELSE LET content == ContentOf(r.value) IN
                  IF Truthy(content)
                  THEN LET full == Accumulate(st1.full, content.text) IN
                       [st1 EXCEPT !.full = full,
                                    !.emitted = Append(@, full),
                                    !.extracted = Append(@, content.text)]
                  ELSE st1

\* the body of `for (const line of lines)`
ProcessLine(st, line) ==
    IF ~StartsWith(line, DataPrefix) THEN st
    ELSE LET data == Slice(line, PrefixLen) IN
         IF IsDone(data)
         THEN [st EXCEPT !.doneAt = IF @ = -1 THEN Len(st.extracted) ELSE @]
         ELSE LET r  == JSONParse(data)
                  st1 == [st EXCEPT !.parsed = @ \cup {data}]
              IN  IF ~r.ok THEN OnParseError(st1, data)
                  ELSE LET content == ContentOf(r.value) IN
                       IF Truthy(content)
                       THEN LET full == Accumulate(st1.full, content.text) IN
                            [st1 EXCEPT !.full = full,
                                         !.emitted = Append(@, full),
                                         !.extracted = Append(@, content.text)]
                       ELSE st1

RECURSIVE ProcessLines(_, _)
ProcessLines(st, lines) ==
    IF lines = <<>> THEN st
    ELSE ProcessLines(ProcessLine(st, Head(lines)), Tail(lines))

\* decode the chunk, split it on '\n', run the loop body on every piece
ProcessChunk(st, chunk) == ProcessLines(st, Split(chunk))

-----------------------------------------------------------------------------
(* The response bodies the server may send *)

LineA == DataPrefix \o <<JsonOpen, "a", JsonClose>>
LineB == DataPrefix \o <<JsonOpen, "b", JsonClose>>
LineDone == DataPrefix \o DoneSentinel
\* a payload that is not valid JSON
LineMalformed == DataPrefix \o <<JsonOpen, "a">>
\* content is the empty string
LineEmptyContent == DataPrefix \o <<JsonOpen, JsonClose>>
\* no choices at all
LineNoChoices == DataPrefix \o <<JsonEmptyObject>>
\* an empty choices array
LineEmptyChoices == DataPrefix \o <<JsonEmptyChoices>>
\* a delta without content
LineNoContent == DataPrefix \o <<JsonEmptyDelta>>
\* the blank line that ends an event
LineBlank == <<>>
\* the field name without the space after the colon
LineNoSpace == <<"d", "a", "t", "a", ":", JsonOpen, "a", JsonClose>>

WellFormedLines == {LineA, LineB}
LineKinds == WellFormedLines \cup
             {LineDone, LineMalformed, LineEmptyContent, LineNoChoices,
              LineEmptyChoices, LineNoContent, LineBlank, LineNoSpace}

\* every line is terminated by '\n'
RECURSIVE Join(_)
Join(lines) == IF lines = <<>> THEN <<>>
               ELSE Head(lines) \o <<NL>> \o Join(Tail(lines))

LineSeqs == UNION {[1..n -> LineKinds] : n \in 0..MaxLines}
Wires == {Join(ls) : ls \in LineSeqs}

-----------------------------------------------------------------------------
(* ChatInterface.handleGenerate *)

\* what may be typed: a blank prompt, a prompt (empty is the initial value)
PromptSamples == {<<" ">>, <<"q">>}
\* localStorage.getItem("sambanova_api_key"): null, or the stored key
NoKey == "null"
ApiKeys == {NoKey, "sk-key"}
\* response.status
HttpStatuses == {200, 401, 500}
\* response.ok
IsOk(status) == status \in 200..299

\* what `await response.json()` yields for an error response: the body parsed
\* (with or without error.message), or a rejection when the body is not JSON
ErrorBodies ==
    { [json |-> TRUE,  message |-> <<"Invalid API key">>],
      [json |-> TRUE,  message |-> <<>>],
      [json |-> FALSE, message |-> <<>>] }
SyntaxErrorMessage == <<"Unexpected token < in JSON at position 0">>
FetchErrorMessage == <<"Failed to fetch">>
NoReaderMessage == <<"Failed to get response reader">>
HttpErrorMessage(status) == <<"HTTP error! status: ", ToString(status)>>

\* errorData.error?.message || `HTTP error! status: ${response.status}`
ErrorMessageOf(body, status) ==
    IF body.message # <<>> THEN body.message ELSE HttpErrorMessage(status)

\* the message of the error thrown for a non-OK response
NotOkMessage(body, status) ==
    IF body.json THEN ErrorMessageOf(body, status) ELSE SyntaxErrorMessage

ErrorText ==
    <<"Error: Failed to generate response. Please check your API key and try again.">>
ErrorToast(msg) == [kind |-> "error", text |-> <<"Failed to generate response: ">> \o msg]
SuccessToast == [kind |-> "success", text |-> <<"Response generated successfully">>]
NoPromptToast == [kind |-> "error", text |-> <<"Please enter a prompt">>]
NoKeyToast ==
    [kind |-> "error",
     text |-> <<"Please set your SambaNova API key in the Status Panel">>]

\* a button that is not disabled while a response is loading
ButtonEnabledWhileLoading == Trim(prompt) # <<>>

\* <Button disabled={isLoading || !prompt.trim()}>
ButtonEnabled == ~(isLoading \/ Trim(prompt) = <<>>)

\* no image, no canvas yet
NoImage == [width |-> 0, height |-> 0, seed |-> 0]
NoCanvas == [width |-> 0, height |-> 0, data |-> <<>>]
\* useState<string | null>(null)
NoUrl == "null"

EditorInit ==
    /\ isProcessing = FALSE
    /\ editedImage = NoUrl
    /\ rbPc = "idle"
    /\ image = NoImage
    /\ canvas = NoCanvas
    /\ wasResized = FALSE
    /\ mask = <<>>
    /\ outputCanvas = NoCanvas
    /\ blobUrls = 0
    /\ rbToasts = <<>>
    /\ rbOutcome = "none"

\* useState(""), useState(false), useState<string | null>(null)
\* null, as a value comparable with the URLs
NoGeneratedImage == [prompt |-> <<>>, seed |-> -1]
GeneratorInit ==
    /\ igPrompt = <<>>
    /\ igIsLoading = FALSE
    /\ generatedImage = NoGeneratedImage
    /\ igPending = {}
    /\ igStarted = 0
    /\ igLatestUrl = NoGeneratedImage
    /\ igToasts = <<>>

\* useState<UploadedFile[]>([]), useState(false)
UploadInit ==
    /\ uploadedFiles = <<>>
    /\ isUploading = FALSE
    /\ uploads = <<>>
    /\ upToasts = <<>>

\* useState<File | null>(null)
NoFile == [type |-> "null", name |-> "null"]
\* useState("What do you see in this image?")
DefaultQuestion == <<"What do you see in this image?">>
NoToast == <<>>

VisionInit ==
    /\ imageUrl = <<>>
    /\ vaPrompt = DefaultQuestion
    /\ analysis = <<>>
    /\ vaIsLoading = FALSE
    /\ imageFile = NoFile
    /\ vaToast = NoToast

PanelInit == GeneratorInit /\ UploadInit /\ VisionInit

ChatInit ==
    /\ prompt = <<>>
    /\ response = <<>>
    /\ isLoading = FALSE
    /\ mounted = TRUE
    /\ pc = "idle"
    /\ wire = <<>>
    /\ pos = 0
    /\ fullResponse = <<>>
    /\ httpStatus = 200
    /\ emitted = <<>>
    /\ extracted = <<>>
    /\ parsed = {}
    /\ doneAt = -1
    /\ toasts = <<>>
    /\ reads = 0
    /\ fetches = 0
    /\ outcome = "none"
    /\ inFlight = 0

\* a useState setter called with v while the state holds cur: React drops
\* the update of a component that is no longer mounted
SetState(cur, v) == IF mounted THEN v ELSE cur

\* <Textarea onChange={(e) => setPrompt(e.target.value)} disabled={isLoading}>
SetPrompt ==
    /\ UNCHANGED <<editorVars, panelVars>>
    /\ mounted
    /\ ~isLoading
    /\ \E p \in PromptSamples : p # prompt /\ prompt' = p
    /\ UNCHANGED <<response, isLoading, mounted, pc, wire, pos, fullResponse,
                   httpStatus, emitted, extracted, parsed, doneAt, toasts, reads,
                   fetches, outcome, inFlight>>

\* a new invocation starts with nothing observed
FreshObservation ==
    /\ emitted' = <<>>
    /\ extracted' = <<>>
    /\ parsed' = {}
    /\ doneAt' = -1
    /\ reads' = 0
    /\ wire' = <<>>
    /\ pos' = 0
    /\ fullResponse' = <<>>
    /\ httpStatus' = 200

\* a handler that leaves the displayed response as it is when it issues the
\* request (setResponse("") is missing)
HandleGenerateKeepsResponse ==
    /\ UNCHANGED <<editorVars, panelVars>>
    /\ mounted
    /\ ButtonEnabled
    /\ FreshObservation
    /\ \E apiKey \in ApiKeys :
         IF Trim(prompt) = <<>> \/ apiKey = NoKey
         THEN /\ toasts' = <<NoKeyToast>>
              /\ outcome' = "invalid"
              /\ fetches' = 0
              /\ UNCHANGED <<prompt, response, isLoading, pc, inFlight>>
         ELSE /\ isLoading' = TRUE
              /\ toasts' = <<>>
              /\ outcome' = "none"
              /\ fetches' = 1
              /\ pc' = "fetching"
              /\ inFlight' = inFlight + 1
              /\ UNCHANGED <<prompt, response>>
    /\ UNCHANGED mounted

\* a handler that clears the displayed response before it validates
HandleGenerateClearsFirst ==
    /\ UNCHANGED <<editorVars, panelVars>>
    /\ mounted
    /\ ButtonEnabled
    /\ FreshObservation
    /\ response' = <<>>
    /\ \E apiKey \in ApiKeys :
         IF Trim(prompt) = <<>> \/ apiKey = NoKey
         THEN /\ toasts' = <<IF Trim(prompt) = <<>> THEN NoPromptToast ELSE NoKeyToast>>
              /\ outcome' = "invalid"
              /\ fetches' = 0
              /\ UNCHANGED <<prompt, isLoading, pc, inFlight>>
         ELSE /\ isLoading' = TRUE
              /\ toasts' = <<>>
              /\ outcome' = "none"
              /\ fetches' = 1
              /\ pc' = "fetching"
              /\ inFlight' = inFlight + 1
              /\ UNCHANGED prompt
    /\ UNCHANGED mounted

\* the click on Generate: validation, then the request is issued
HandleGenerate ==
    /\ UNCHANGED <<editorVars, panelVars>>
    /\ mounted
    /\ ButtonEnabled
    /\ FreshObservation
    /\ \E apiKey \in ApiKeys :
         IF Trim(prompt) = <<>>
         THEN /\ toasts' = <<NoPromptToast>>
              /\ outcome' = "invalid"
              /\ fetches' = 0
              /\ UNCHANGED <<prompt, response, isLoading, pc, inFlight>>
         ELSE IF apiKey = NoKey
         THEN /\ toasts' = <<NoKeyToast>>
              /\ outcome' = "invalid"
              /\ fetches' = 0
              /\ UNCHANGED <<prompt, response, isLoading, pc, inFlight>>
         ELSE /\ isLoading' = TRUE
              /\ response' = <<>>
              /\ toasts' = <<>>
              /\ outcome' = "none"
              /\ fetches' = 1
              /\ pc' = "fetching"
              /\ inFlight' = inFlight + 1
              /\ UNCHANGED prompt
    /\ UNCHANGED mounted

\* a handler without the finally block: the loading flag is left set
CatchLeavesLoading(msg, how) ==
    /\ toasts' = Append(toasts, ErrorToast(msg))
    /\ response' = SetState(response, ErrorText)
    /\ pc' = "idle"
    /\ outcome' = how
    /\ inFlight' = inFlight - 1
    /\ UNCHANGED <<mounted, isLoading>>

\* catch (error) { toast.error(...); setResponse("Error: ...") } finally { ... }
Catch(msg, how) ==
    /\ toasts' = Append(toasts, ErrorToast(msg))
    /\ response' = SetState(response, ErrorText)
    /\ isLoading' = SetState(isLoading, FALSE)
    /\ pc' = "idle"
    /\ outcome' = how
    /\ inFlight' = inFlight - 1
    /\ UNCHANGED mounted

\* fetch rejects (the network is down)
FetchRejects ==
    /\ UNCHANGED <<editorVars, panelVars>>
    /\ pc = "fetching"
    /\ Catch(FetchErrorMessage, "fetchError")
    /\ UNCHANGED <<prompt, wire, pos, fullResponse, httpStatus, emitted, extracted,
                   parsed, doneAt, reads, fetches>>

\* fetch resolves with a non-OK status: await response.json()
FetchNotOk ==
    /\ UNCHANGED <<editorVars, panelVars>>
    /\ pc = "fetching"
    /\ \E status \in HttpStatuses : ~IsOk(status) /\ httpStatus' = status
    /\ pc' = "errorBody"
    /\ UNCHANGED <<prompt, response, isLoading, wire, pos, fullResponse, emitted,
                   extracted, parsed, doneAt, toasts, reads, fetches, outcome>>
    /\ UNCHANGED <<mounted, inFlight>>

\* response.json() settles; the error is thrown and caught
ErrorBodyArrives ==
    /\ UNCHANGED <<editorVars, panelVars>>
    /\ pc = "errorBody"
    /\ \E body \in ErrorBodies : Catch(NotOkMessage(body, httpStatus), "httpError")
    /\ UNCHANGED <<prompt, wire, pos, fullResponse, httpStatus, emitted, extracted,
                   parsed, doneAt, reads, fetches>>

\* fetch resolves OK, but response.body is null: no reader
FetchNoBody ==
    /\ UNCHANGED <<editorVars, panelVars>>
    /\ pc = "fetching"
    /\ \E status \in HttpStatuses : IsOk(status) /\ httpStatus' = status
    /\ Catch(NoReaderMessage, "noReader")
    /\ UNCHANGED <<prompt, wire, pos, fullResponse, emitted, extracted, parsed, doneAt,
                   reads, fetches>>

\* fetch resolves OK with a body: the reader is obtained, the first read issued
FetchOk ==
    /\ UNCHANGED <<editorVars, panelVars>>
    /\ pc = "fetching"
    /\ \E status \in HttpStatuses : IsOk(status) /\ httpStatus' = status
    /\ \E w \in Wires : wire' = w
    /\ pos' = 0
    /\ fullResponse' = <<>>
    /\ reads' = 1
    /\ pc' = "reading"
    /\ UNCHANGED <<prompt, response, isLoading, emitted, extracted, parsed, doneAt, toasts,
                   fetches, outcome>>
    /\ UNCHANGED <<mounted, inFlight>>

\* reader.read() resolves with a chunk: the lines of the chunk are processed
\* and the next read is issued
ReadChunk ==
    /\ UNCHANGED <<editorVars, panelVars>>
    /\ pc = "reading"
    /\ reads < MaxReads
    /\ \E n \in (pos + 1)..Len(wire) :
         LET chunk == SubSeq(wire, pos + 1, n)
             st == ProcessChunk(LoopState(fullResponse, emitted, extracted, {}, doneAt),
                               chunk)
         IN  /\ pos' = n
             /\ fullResponse' = st.full
             /\ emitted' = st.emitted
             /\ extracted' = st.extracted
             /\ parsed' = st.parsed
             /\ doneAt' = st.doneAt
             /\ response' = IF st.emitted # emitted THEN SetState(response, st.full)
                            ELSE response
    /\ reads' = reads + 1
    /\ UNCHANGED <<prompt, isLoading, pc, wire, httpStatus, toasts, fetches, outcome>>
    /\ UNCHANGED <<mounted, inFlight>>

\* a handler that returns after done without announcing it
ReadDoneSilent ==
    /\ UNCHANGED <<editorVars, panelVars>>
    /\ pc = "reading"
    /\ pos = Len(wire)
    /\ isLoading' = SetState(isLoading, FALSE)
    /\ pc' = "idle"
    /\ outcome' = "success"
    /\ inFlight' = inFlight - 1
    /\ UNCHANGED <<prompt, response, wire, pos, fullResponse, httpStatus, emitted,
                   extracted, parsed, doneAt, reads, fetches, mounted, toasts>>

\* reader.read() resolves with done: break, toast.success, finally
ReadDone ==
    /\ UNCHANGED <<editorVars, panelVars>>
    /\ pc = "reading"
    /\ pos = Len(wire)
    /\ toasts' = Append(toasts, SuccessToast)
    /\ isLoading' = SetState(isLoading, FALSE)
    /\ pc' = "idle"
    /\ outcome' = "success"
    /\ inFlight' = inFlight - 1
    /\ UNCHANGED <<prompt, response, wire, pos, fullResponse, httpStatus, emitted,
                   extracted, parsed, doneAt, reads, fetches, mounted>>

\* a slip: the failed read is reported and then retried
ReadErrorRetries ==
    /\ UNCHANGED <<editorVars, panelVars>>
    /\ pc = "reading"
    /\ reads < MaxReads
    /\ toasts' = Append(toasts, ErrorToast(FetchErrorMessage))
    /\ outcome' = "readError"
    /\ reads' = reads + 1
    /\ UNCHANGED <<prompt, response, isLoading, pc, wire, pos, fullResponse,
                   httpStatus, emitted, extracted, parsed, doneAt, fetches>>
    /\ UNCHANGED <<mounted, inFlight>>

\* reader.read() rejects (the connection dropped)
ReadError ==
    /\ UNCHANGED <<editorVars, panelVars>>
    /\ pc = "reading"
    /\ Catch(FetchErrorMessage, "readError")
    /\ UNCHANGED <<prompt, wire, pos, fullResponse, httpStatus, emitted, extracted,
                   parsed, doneAt, reads, fetches>>

Next ==
    \/ SetPrompt
    \/ HandleGenerate
    \/ FetchRejects
    \/ FetchNotOk
    \/ ErrorBodyArrives
    \/ FetchNoBody
    \/ FetchOk
    \/ ReadChunk
    \/ ReadDone
    \/ ReadError

Init == ChatInit /\ EditorInit /\ PanelInit

Spec == Init /\ [][Next]_vars

\* The transport settles every promise the handler awaits: fetch resolves or
\* rejects, response.json() settles, and every reader.read() resolves with a
\* chunk or with done, or rejects.
SpecFair ==
    /\ Init
    /\ [][Next]_vars
    /\ WF_vars(FetchRejects \/ FetchNotOk \/ FetchNoBody \/ FetchOk)
    /\ WF_vars(ErrorBodyArrives)
    /\ WF_vars(ReadChunk \/ ReadDone \/ ReadError)

\* The component after an earlier invocation, with the prompt still in the
\* textarea: either the earlier invocation streamed the fragment "a" and
\* ended well, or its read failed after "a" and it left the error text.
InitAfterEarlier ==
    /\ EditorInit
    /\ PanelInit
    /\ prompt = <<"q">>
    /\ isLoading = FALSE
    /\ mounted = TRUE
    /\ pc = "idle"
    /\ wire = Join(<<LineA>>)
    /\ pos = Len(wire)
    /\ fullResponse = <<"a">>
    /\ httpStatus = 200
    /\ emitted = << <<"a">> >>
    /\ extracted = << <<"a">> >>
    /\ parsed = {Slice(LineA, PrefixLen)}
    /\ doneAt = -1
    /\ reads = 2
    /\ fetches = 1
    /\ inFlight = 0
    /\ \/ /\ outcome = "success"
          /\ response = <<"a">>
          /\ toasts = <<SuccessToast>>
       \/ /\ outcome = "readError"
          /\ response = ErrorText
          /\ toasts = <<ErrorToast(FetchErrorMessage)>>

\* the component used again after an earlier invocation
SpecAgain == InitAfterEarlier /\ [][Next]_vars

\* the parent stops rendering the component; nothing in the component runs at
\* unmount (it has no effect with a cleanup, and no AbortController)
Unmount ==
    /\ UNCHANGED <<editorVars, panelVars>>
    /\ mounted
    /\ mounted' = FALSE
    /\ UNCHANGED <<prompt, response, isLoading, pc, wire, pos, fullResponse,
                   httpStatus, emitted, extracted, parsed, doneAt, toasts, reads,
                   fetches, outcome, inFlight>>

NextUnmount ==
    \/ SetPrompt
    \/ HandleGenerate
    \/ FetchRejects
    \/ FetchNotOk
    \/ ErrorBodyArrives
    \/ FetchNoBody
    \/ FetchOk
    \/ ReadChunk
    \/ ReadDone
    \/ ReadError
    \/ Unmount

\* the component in a parent that may unmount it at any moment
SpecUnmount == Init /\ [][NextUnmount]_vars

-----------------------------------------------------------------------------
(* ImageEditor: resizeImageIfNeeded, removeBackground, handleRemoveBackground *)

MAX_IMAGE_DIMENSION == 1024

\* a rounding to the nearest integer that rounds ties down
MathRoundTiesDown(num, den) == (2 * num + den - 1) \div (2 * den)

\* Math.round of the rational num/den (den > 0): the nearest integer, ties up
MathRound(num, den) == (2 * num + den) \div (2 * den)

\* resizeImageIfNeeded with Math.floor in place of Math.round
ResizeImageIfNeededFloors(img) ==
    IF img.width > MAX_IMAGE_DIMENSION \/ img.height > MAX_IMAGE_DIMENSION
    THEN IF img.width > img.height
         THEN [width |-> MAX_IMAGE_DIMENSION,
               height |-> (img.height * MAX_IMAGE_DIMENSION) \div img.width,
               resized |-> TRUE]
         ELSE [width |-> (img.width * MAX_IMAGE_DIMENSION) \div img.height,
               height |-> MAX_IMAGE_DIMENSION,
               resized |-> TRUE]
    ELSE [width |-> img.width, height |-> img.height, resized |-> FALSE]

\* resizeImageIfNeeded with >= in place of > in the test of the limit
ResizeImageIfNeededAtLimit(img) ==
    IF img.width >= MAX_IMAGE_DIMENSION \/ img.height >= MAX_IMAGE_DIMENSION
    THEN IF img.width > img.height
         THEN [width |-> MAX_IMAGE_DIMENSION,
               height |-> MathRound(img.height * MAX_IMAGE_DIMENSION, img.width),
               resized |-> TRUE]
         ELSE [width |-> MathRound(img.width * MAX_IMAGE_DIMENSION, img.height),
               height |-> MAX_IMAGE_DIMENSION,
               resized |-> TRUE]
    ELSE [width |-> img.width, height |-> img.height, resized |-> FALSE]

\* the dimensions resizeImageIfNeeded gives the canvas, and what it returns
ResizeImageIfNeeded(img) ==
    IF img.width > MAX_IMAGE_DIMENSION \/ img.height > MAX_IMAGE_DIMENSION
    THEN IF img.width > img.height
         THEN [width |-> MAX_IMAGE_DIMENSION,
               height |-> MathRound(img.height * MAX_IMAGE_DIMENSION, img.width),
               resized |-> TRUE]
         ELSE [width |-> MathRound(img.width * MAX_IMAGE_DIMENSION, img.height),
               height |-> MAX_IMAGE_DIMENSION,
               resized |-> TRUE]
    ELSE [width |-> img.width, height |-> img.height, resized |-> FALSE]

\* the images that may be loaded: every size of at most MaxPixels pixels, in
\* two colourings
ImageSeeds == {7, 130}
Images ==
    {[width |-> w, height |-> h, seed |-> sd] :
        w \in 1..MaxPixels, h \in 1..MaxPixels, sd \in ImageSeeds}
LoadableImages == {img \in Images : img.width * img.height <= MaxPixels}

\* channel c (0..3: R, G, B, A) of pixel p (0-based, row-major) of an image
ChannelOf(img, p, c) == (img.seed + 50 * p + 17 * c) % 256

\* the RGBA bytes of an image drawn at its own size, row-major
ImagePixels(img) ==
    [j \in 1..(4 * img.width * img.height) |->
        ChannelOf(img, (j - 1) \div 4, (j - 1) % 4)]

\* ctx.drawImage(image, 0, 0, width, height): at its own size the pixels of
\* the image; otherwise the pixel of the image under each canvas pixel
DrawImage(img, w, h) ==
    IF w = img.width /\ h = img.height THEN ImagePixels(img)
    ELSE [j \in 1..(4 * w * h) |->
            LET p == (j - 1) \div 4
                x == ((p % w) * img.width) \div w
                y == ((p \div w) * img.height) \div h
            IN  ChannelOf(img, y * img.width + x, (j - 1) % 4)]

\* mask scores: rationals num/den in [0, 1] that floating point holds exactly
ScoreSamples ==
    { [num |-> 0, den |-> 1], [num |-> 3, den |-> 8],
      [num |-> 1, den |-> 2], [num |-> 1, den |-> 1] }

\* a slip: the mask is applied without the inversion
AlphaOfNotInverted(score) == MathRound(score.num * 255, score.den)

\* Math.round((1 - result[0].mask.data[i]) * 255)
AlphaOf(score) == MathRound((score.den - score.num) * 255, score.den)

\* a store into a Uint8ClampedArray
ToUint8Clamped(v) == IF v < 0 THEN 0 ELSE IF v > 255 THEN 255 ELSE v

\* data[k] = v on a typed array (k 0-based): a store past the end is ignored
StoreByte(data, k, v) ==
    IF k + 1 \in DOMAIN data THEN [data EXCEPT ![k + 1] = ToUint8Clamped(v)]
    ELSE data

\* for (let i = 0; i < result[0].mask.data.length; i++) data[i * 4 + 3] = alpha
RECURSIVE MaskLoop(_, _, _)
MaskLoop(data, m, i) ==
    IF i < Len(m)
    THEN MaskLoop(StoreByte(data, i * 4 + 3, AlphaOf(m[i + 1])), m, i + 1)
    ELSE data

\* what `await segmenter(imageData)` may resolve with, for a canvas of n
\* pixels: results the check of line 66 rejects, or a mask of any length
\* from 0 to n + 1
InvalidResults == {"null", "notArray", "emptyArray", "noMask"}
MaskDatas(n) == UNION {[1..len -> ScoreSamples] : len \in 0..(n + 1)}
SegResults(n) ==
    {[kind |-> k, data |-> <<>>] : k \in InvalidResults}
    \cup {[kind |-> "mask", data |-> m] : m \in MaskDatas(n)}

\* !result || !Array.isArray(result) || result.length === 0 || !result[0].mask
IsInvalidResult(result) == result.kind \in InvalidResults

RbFailToast ==
    [kind |-> "error", text |-> <<"Failed to remove background. Please try again.">>]
RbSuccessToast ==
    [kind |-> "success", text |-> <<"Background removed successfully!">>]

\* an output canvas left at the default size of a new canvas element
OutputCanvasSizeDefault(cv) == [width |-> 300, height |-> 150]

\* outputCanvas.width = canvas.width; outputCanvas.height = canvas.height
OutputCanvasSize(cv) == [width |-> cv.width, height |-> cv.height]

\* URL.createObjectURL(resultBlob): a URL not handed out before
ObjectUrl(n) == ToString(n)

\* a catch block that only logs the error
RbCatchSilent(how) ==
    /\ rbToasts' = rbToasts
    /\ isProcessing' = FALSE
    /\ rbPc' = "idle"
    /\ rbOutcome' = how

\* catch (error) { toast.error(...) } finally { setIsProcessing(false) }
RbCatch(how) ==
    /\ rbToasts' = Append(rbToasts, RbFailToast)
    /\ isProcessing' = FALSE
    /\ rbPc' = "idle"
    /\ rbOutcome' = how

\* the click on Remove Background: <Button disabled={isProcessing}>
HandleRemoveBackground ==
    /\ UNCHANGED <<chatVars, panelVars>>
    /\ rbPc = "idle"
    /\ ~isProcessing
    /\ blobUrls < MaxBlobs
    /\ isProcessing' = TRUE
    /\ rbPc' = "fetching"
    /\ image' = NoImage
    /\ canvas' = NoCanvas
    /\ wasResized' = FALSE
    /\ mask' = <<>>
    /\ outputCanvas' = NoCanvas
    /\ rbToasts' = <<>>
    /\ rbOutcome' = "none"
    /\ UNCHANGED <<editedImage, blobUrls>>

\* fetch(imageUrl) and response.blob() resolve: loadImage(blob) starts
ImageFetched ==
    /\ UNCHANGED <<chatVars, panelVars>>
    /\ rbPc = "fetching"
    /\ rbPc' = "loading"
    /\ UNCHANGED <<isProcessing, editedImage, image, canvas, wasResized, mask, outputCanvas,
                   blobUrls, rbToasts, rbOutcome>>

\* fetch(imageUrl) or response.blob() rejects
ImageFetchFails ==
    /\ UNCHANGED <<chatVars, panelVars>>
    /\ rbPc = "fetching"
    /\ RbCatch("fetchError")
    /\ UNCHANGED <<editedImage, image, canvas, wasResized, mask, outputCanvas, blobUrls>>

\* img.onload: removeBackground(imageElement) is called and awaits pipeline()
ImageLoaded ==
    /\ UNCHANGED <<chatVars, panelVars>>
    /\ rbPc = "loading"
    /\ \E img \in LoadableImages : image' = img
    /\ rbPc' = "pipeline"
    /\ UNCHANGED <<isProcessing, editedImage, canvas, wasResized, mask, outputCanvas, blobUrls,
                   rbToasts, rbOutcome>>

\* img.onerror
ImageLoadFails ==
    /\ UNCHANGED <<chatVars, panelVars>>
    /\ rbPc = "loading"
    /\ RbCatch("loadError")
    /\ UNCHANGED <<editedImage, image, canvas, wasResized, mask, outputCanvas, blobUrls>>

\* pipeline() resolves: the canvas is made (getContext may give null), the
\* image is drawn on it at the size resizeImageIfNeeded decides, and the
\* segmenter is called
PipelineReady ==
    /\ UNCHANGED <<chatVars, panelVars>>
    /\ rbPc = "pipeline"
    /\ \E ctxOk \in BOOLEAN :
         IF ~ctxOk
         THEN /\ RbCatch("noContext")
              /\ UNCHANGED <<canvas, wasResized>>
         ELSE LET size == ResizeImageIfNeeded(image) IN
              /\ canvas' = [width |-> size.width, height |-> size.height,
                            data |-> DrawImage(image, size.width, size.height)]
              /\ wasResized' = size.resized
              /\ rbPc' = "segmenting"
              /\ UNCHANGED <<isProcessing, rbToasts, rbOutcome>>
    /\ UNCHANGED <<editedImage, image, mask, outputCanvas, blobUrls>>

\* pipeline() rejects (the model cannot be loaded)
PipelineFails ==
    /\ UNCHANGED <<chatVars, panelVars>>
    /\ rbPc = "pipeline"
    /\ RbCatch("pipelineError")
    /\ UNCHANGED <<editedImage, image, canvas, wasResized, mask, outputCanvas, blobUrls>>

\* segmenter(imageData) resolves: the result is checked, the output canvas
\* is made with the size of the canvas and its pixels, the mask loop runs
\* over its image data, and toBlob is called
SegmentationDone ==
    /\ UNCHANGED <<chatVars, panelVars>>
    /\ rbPc = "segmenting"
    /\ \E result \in SegResults(canvas.width * canvas.height), outputCtxOk \in BOOLEAN :
         IF IsInvalidResult(result)
         THEN /\ RbCatch("invalidResult")
              /\ UNCHANGED <<mask, outputCanvas>>
         ELSE IF ~outputCtxOk
         THEN /\ RbCatch("noContext")
              /\ UNCHANGED <<mask, outputCanvas>>
         ELSE /\ mask' = result.data
              /\ outputCanvas' = [width |-> OutputCanvasSize(canvas).width,
                                  height |-> OutputCanvasSize(canvas).height,
                                  data |-> MaskLoop(canvas.data, result.data, 0)]
              /\ rbPc' = "encoding"
              /\ UNCHANGED <<isProcessing, rbToasts, rbOutcome>>
    /\ UNCHANGED <<editedImage, image, canvas, wasResized, blobUrls>>

\* segmenter(imageData) rejects
SegmentationFails ==
    /\ UNCHANGED <<chatVars, panelVars>>
    /\ rbPc = "segmenting"
    /\ RbCatch("segmenterError")
    /\ UNCHANGED <<editedImage, image, canvas, wasResized, mask, outputCanvas, blobUrls>>

\* toBlob calls back with a blob: resolve, createObjectURL, setEditedImage
BlobReady ==
    /\ UNCHANGED <<chatVars, panelVars>>
    /\ rbPc = "encoding"
    /\ blobUrls' = blobUrls + 1
    /\ editedImage' = ObjectUrl(blobUrls + 1)
    /\ rbToasts' = Append(rbToasts, RbSuccessToast)
    /\ isProcessing' = FALSE
    /\ rbPc' = "idle"
    /\ rbOutcome' = "success"
    /\ UNCHANGED <<image, canvas, wasResized, mask, outputCanvas>>

\* a toBlob callback that hands the null blob on as a result
BlobFailsResolved ==
    /\ UNCHANGED <<chatVars, panelVars>>
    /\ rbPc = "encoding"
    /\ blobUrls' = blobUrls + 1
    /\ editedImage' = ObjectUrl(blobUrls + 1)
    /\ rbToasts' = Append(rbToasts, RbSuccessToast)
    /\ isProcessing' = FALSE
    /\ rbPc' = "idle"
    /\ rbOutcome' = "encodingError"
    /\ UNCHANGED <<image, canvas, wasResized, mask, outputCanvas>>

\* toBlob calls back with null: reject(new Error('Failed to create blob'))
BlobFails ==
    /\ UNCHANGED <<chatVars, panelVars>>
    /\ rbPc = "encoding"
    /\ RbCatch("encodingError")
    /\ UNCHANGED <<editedImage, image, canvas, wasResized, mask, outputCanvas, blobUrls>>

EditorNext ==
    \/ HandleRemoveBackground
    \/ ImageFetched
    \/ ImageFetchFails
    \/ ImageLoaded
    \/ ImageLoadFails
    \/ PipelineReady
    \/ PipelineFails
    \/ SegmentationDone
    \/ SegmentationFails
    \/ BlobReady
    \/ BlobFails

SpecEditor == Init /\ [][EditorNext]_vars

-----------------------------------------------------------------------------
(* removeBackground on images of any size: the dimensions only.  The pixels *)
(* of a canvas of a thousand pixels a side are not modelled; its data stays *)
(* empty.                                                                   *)

\* the sides of the images: every side within ResizeWindow of the limit, and
\* some far from it
ResizeSides ==
    {1, 2, 600, 1000, 1536, 2000, 2048, 5000}
        \cup ((MAX_IMAGE_DIMENSION - ResizeWindow)..(MAX_IMAGE_DIMENSION + ResizeWindow))
ResizeInputs ==
    {[width |-> w, height |-> h, seed |-> sd] :
        w \in ResizeSides, h \in ResizeSides, sd \in ImageSeeds}

\* removeBackground(imageElement) was called with a loaded image and awaits
\* pipeline()
InitResize ==
    /\ ChatInit
    /\ PanelInit
    /\ isProcessing = TRUE
    /\ editedImage = NoUrl
    /\ rbPc = "pipeline"
    /\ image \in ResizeInputs
    /\ canvas = NoCanvas
    /\ wasResized = FALSE
    /\ mask = <<>>
    /\ outputCanvas = NoCanvas
    /\ blobUrls = 0
    /\ rbToasts = <<>>
    /\ rbOutcome = "none"

\* const wasResized = resizeImageIfNeeded(canvas, ctx, imageElement)
ResizeCanvas ==
    /\ UNCHANGED <<chatVars, panelVars>>
    /\ rbPc = "pipeline"
    /\ LET size == ResizeImageIfNeeded(image) IN
         /\ canvas' = [width |-> size.width, height |-> size.height, data |-> <<>>]
         /\ wasResized' = size.resized
    /\ rbPc' = "segmenting"
    /\ UNCHANGED <<isProcessing, editedImage, image, mask, outputCanvas, blobUrls,
                   rbToasts, rbOutcome>>

\* the output canvas is made with the size of the canvas
SizeOutputCanvas ==
    /\ UNCHANGED <<chatVars, panelVars>>
    /\ rbPc = "segmenting"
    /\ outputCanvas' = [width |-> OutputCanvasSize(canvas).width,
                        height |-> OutputCanvasSize(canvas).height,
                        data |-> <<>>]
    /\ rbPc' = "encoding"
    /\ UNCHANGED <<isProcessing, editedImage, image, canvas, wasResized, mask,
                   blobUrls, rbToasts, rbOutcome>>

ResizeNext ==
    \/ ResizeCanvas
    \/ SizeOutputCanvas

SpecResize == InitResize /\ [][ResizeNext]_vars

-----------------------------------------------------------------------------
(* ImageGenerator (Pollinations version): handleGenerate and the callbacks *)
(* of the Image objects it creates                                         *)

IgPromptSamples == {<<" ">>, <<"c">>, <<"d">>}
\* Math.floor(Math.random() * 1000000)
SeedSamples == {0, 999999}

\* `https://image.pollinations.ai/prompt/${encodeURIComponent(prompt)}
\*  ?width=512&height=512&seed=${seed}`: the URL is determined by, and
\* determines, the prompt and the seed
ImageUrl(p, seed) == [prompt |-> p, seed |-> seed]

IgNoPromptToast == [kind |-> "error", text |-> <<"Please enter an image prompt">>]
IgSuccessToast == [kind |-> "success", text |-> <<"Image generated successfully">>]

\* <Button disabled={isLoading || !prompt.trim()}>
IgButtonEnabled == ~(igIsLoading \/ Trim(igPrompt) = <<>>)

\* <Input onChange={(e) => setPrompt(e.target.value)} disabled={isLoading}>
IgSetPrompt ==
    /\ UNCHANGED <<chatVars, editorVars, uploadVars, visionVars>>
    /\ ~igIsLoading
    /\ \E p \in IgPromptSamples : igPrompt' = p /\ igPrompt # p
    /\ UNCHANGED <<igIsLoading, generatedImage, igPending, igStarted, igLatestUrl,
                   igToasts>>

\* the click on Generate.  The handler has no await: setIsLoading(true),
\* setGeneratedImage(null), the creation of the Image with its callbacks and
\* img.src, and the finally block with setIsLoading(false) all run within the
\* click event, so the state after the handler has isLoading false.
IgHandleGenerate ==
    /\ UNCHANGED <<chatVars, editorVars, uploadVars, visionVars>>
    /\ IgButtonEnabled
    /\ igStarted < MaxRequests
    /\ IF Trim(igPrompt) = <<>>
       THEN /\ igToasts' = Append(igToasts, IgNoPromptToast)
            /\ UNCHANGED <<igIsLoading, generatedImage, igPending, igStarted,
                           igLatestUrl>>
       ELSE \E seed \in SeedSamples :
              /\ generatedImage' = NoGeneratedImage
              /\ igStarted' = igStarted + 1
              /\ igPending' = igPending \cup
                     {[req |-> igStarted + 1, url |-> ImageUrl(igPrompt, seed)]}
              /\ igLatestUrl' = ImageUrl(igPrompt, seed)
              /\ igIsLoading' = FALSE
              /\ UNCHANGED igToasts
    /\ UNCHANGED igPrompt

\* img.onload = () => { setGeneratedImage(imageUrl); toast.success(...) }
IgOnload ==
    /\ UNCHANGED <<chatVars, editorVars, uploadVars, visionVars>>
    /\ \E r \in igPending :
         /\ igPending' = igPending \ {r}
         /\ generatedImage' = r.url
         /\ igToasts' = Append(igToasts, IgSuccessToast)
    /\ UNCHANGED <<igPrompt, igIsLoading, igStarted, igLatestUrl>>

\* img.onerror = () => { throw new Error(...) }: the throw happens in the
\* callback, after handleGenerate has returned, so no catch block of the
\* handler sees it
IgOnerror ==
    /\ UNCHANGED <<chatVars, editorVars, uploadVars, visionVars>>
    /\ \E r \in igPending : igPending' = igPending \ {r}
    /\ UNCHANGED <<igPrompt, igIsLoading, generatedImage, igStarted, igLatestUrl,
                   igToasts>>

GeneratorNext ==
    \/ IgSetPrompt
    \/ IgHandleGenerate
    \/ IgOnload
    \/ IgOnerror

SpecGenerator == Init /\ [][GeneratorNext]_vars

-----------------------------------------------------------------------------
(* DocumentAnalyzer: handleFileUpload, removeFile                          *)

MaxFiles == 3

\* a picked file: over 500MB, of a type not allowed, a PDF, or an image
FileKinds == {"tooBig", "badType", "pdf", "image"}
\* event.target.files of one selection (multiple): one or more files
FileSelections == UNION {[1..n -> FileKinds] : n \in 1..MaxPick}

\* uploadedFiles.length + files.length > 3
ExceedsLimit(existing, selected) == existing + selected > MaxFiles

\* an input that stays enabled while an upload is running
FileInputEnabledWhileUploading == ~(Len(uploadedFiles) >= MaxFiles)

\* <input type="file" disabled={isUploading || uploadedFiles.length >= 3}>
FileInputEnabled == ~(isUploading \/ Len(uploadedFiles) >= MaxFiles)

\* the for loop over the picked files, run until it awaits the FileReader of
\* an image or ends: oversized files and files of other types are reported
\* and skipped, a PDF is appended at once
RECURSIVE RunToAwait(_, _, _)
RunToAwait(queue, files, ts) ==
    IF queue = <<>> THEN [queue |-> <<>>, files |-> files, toasts |-> ts]
    ELSE IF Head(queue) \in {"tooBig", "badType"}
    THEN RunToAwait(Tail(queue), files, Append(ts, "error"))
    ELSE IF Head(queue) = "pdf"
    THEN RunToAwait(Tail(queue), Append(files, "pdf"), Append(ts, "success"))
    ELSE [queue |-> queue, files |-> files, toasts |-> ts]

\* the sequence without its i-th element
RemoveAt(seq, i) == SubSeq(seq, 1, i - 1) \o SubSeq(seq, i + 1, Len(seq))

\* onChange of the file input
HandleFileUpload ==
    /\ UNCHANGED <<chatVars, editorVars, generatorVars, visionVars>>
    /\ FileInputEnabled
    /\ \E files \in FileSelections :
         IF ExceedsLimit(Len(uploadedFiles), Len(files))
         THEN /\ upToasts' = <<"error">>
              /\ UNCHANGED <<uploadedFiles, isUploading, uploads>>
         ELSE \A run \in {RunToAwait(files, uploadedFiles, <<>>)} :
                /\ uploadedFiles' = run.files
                /\ upToasts' = run.toasts
                /\ IF run.queue = <<>>
                   THEN /\ isUploading' = FALSE
                        /\ UNCHANGED uploads
                   ELSE /\ isUploading' = TRUE
                        /\ uploads' = Append(uploads, [queue |-> run.queue,
                                                       stuck |-> FALSE])

\* reader.onload of the image a handler awaits: the image is appended, and
\* the loop goes on to its next await or to setIsUploading(false)
FileLoaded ==
    /\ UNCHANGED <<chatVars, editorVars, generatorVars, visionVars>>
    /\ \E i \in DOMAIN uploads :
         /\ ~uploads[i].stuck
         /\ \A run \in {RunToAwait(Tail(uploads[i].queue),
                                   Append(uploadedFiles, "image"), <<"success">>)} :
              /\ uploadedFiles' = run.files
              /\ upToasts' = run.toasts
              /\ IF run.queue = <<>>
                 THEN /\ isUploading' = FALSE
                      /\ uploads' = RemoveAt(uploads, i)
                 ELSE /\ uploads' = [uploads EXCEPT ![i].queue = run.queue]
                      /\ UNCHANGED isUploading

\* the FileReader fails: it has no onerror, so the promise the handler awaits
\* is never settled and the handler never resumes
FileReadFails ==
    /\ UNCHANGED <<chatVars, editorVars, generatorVars, visionVars>>
    /\ \E i \in DOMAIN uploads :
         /\ ~uploads[i].stuck
         /\ uploads' = [uploads EXCEPT ![i].stuck = TRUE]
    /\ upToasts' = <<>>
    /\ UNCHANGED <<uploadedFiles, isUploading>>

\* the click on the X of a file: removeFile(file.id)
RemoveFile ==
    /\ UNCHANGED <<chatVars, editorVars, generatorVars, visionVars>>
    /\ \E k \in DOMAIN uploadedFiles : uploadedFiles' = RemoveAt(uploadedFiles, k)
    /\ upToasts' = <<"success">>
    /\ UNCHANGED <<isUploading, uploads>>

UploadNext ==
    \/ HandleFileUpload
    \/ FileLoaded
    \/ FileReadFails
    \/ RemoveFile

SpecUpload == Init /\ [][UploadNext]_vars

-----------------------------------------------------------------------------
(* VisionAnalyzer (URL-or-file version): the URL input, handleFileUpload,  *)
(* handleAnalyze.  The read loop of handleAnalyze is the one of            *)
(* ChatInterface; here only what it does to the component state is kept:   *)
(* fragments arrive, then the stream ends or fails.                        *)

\* what may be typed into the URL input: nothing, a blank, a URL
UrlSamples == {<<>>, <<" ">>, <<"u">>, <<"v">>}
\* what the file dialog may hand over: an image, or a file of another type
FilePicks ==
    {[type |-> "image/png", name |-> "f"], [type |-> "image/png", name |-> "g"],
     [type |-> "text/plain", name |-> "t"]}
QuestionSamples == {<<>>, DefaultQuestion}

\* file.type.startsWith('image/')
IsImageType(file) == file.type = "image/png"

VaNoSourceToast == <<"Please enter an image URL or upload an image file">>
VaNoQuestionToast == <<"Please enter a question about the image">>
VaNoKeyToast == <<"Please set your SambaNova API key in the Status Panel">>
VaBadFileToast == <<"Please select a valid image file">>
VaUploadedToast == <<"Image uploaded successfully">>
VaSuccessToast == <<"Image analysis completed using Llama-4-Maverick-17B">>
VaErrorToast == <<"Failed to analyze image: ">>
VaErrorText ==
    <<"Error: Failed to analyze image. Please check the image source and try again.">>

\* <Input disabled={isLoading || !!imageFile}>
UrlInputEnabled == ~(vaIsLoading \/ imageFile # NoFile)
\* <input type="file" disabled={isLoading || !!imageUrl}>
VaFileInputEnabled == ~(vaIsLoading \/ imageUrl # <<>>)
\* <Button disabled={isLoading || (!imageUrl.trim() && !imageFile) || !prompt.trim()}>
AnalyzeEnabled ==
    ~(vaIsLoading \/ (Trim(imageUrl) = <<>> /\ imageFile = NoFile)
        \/ Trim(vaPrompt) = <<>>)

\* onChange of the URL input:
\* setImageUrl(e.target.value); if (e.target.value) setImageFile(null)
VaSetImageUrl ==
    /\ UNCHANGED <<chatVars, editorVars, generatorVars, uploadVars>>
    /\ UrlInputEnabled
    /\ \E value \in UrlSamples :
         /\ value # imageUrl
         /\ imageUrl' = value
         /\ imageFile' = IF value # <<>> THEN NoFile ELSE imageFile
    /\ vaToast' = NoToast
    /\ UNCHANGED <<vaPrompt, analysis, vaIsLoading>>

\* a file input that ignores the URL and a handler that leaves the URL alone
VaHandleFileUploadBesideUrl ==
    /\ UNCHANGED <<chatVars, editorVars, generatorVars, uploadVars>>
    /\ ~vaIsLoading
    /\ \E file \in FilePicks :
         IF ~IsImageType(file)
         THEN /\ vaToast' = VaBadFileToast
              /\ UNCHANGED <<imageFile, imageUrl>>
         ELSE /\ imageFile' = file
              /\ vaToast' = VaUploadedToast
              /\ UNCHANGED imageUrl
    /\ UNCHANGED <<vaPrompt, analysis, vaIsLoading>>

\* onChange of the file input: handleFileUpload
VaHandleFileUpload ==
    /\ UNCHANGED <<chatVars, editorVars, generatorVars, uploadVars>>
    /\ VaFileInputEnabled
    /\ \E file \in FilePicks :
         IF ~IsImageType(file)
         THEN /\ vaToast' = VaBadFileToast
              /\ UNCHANGED <<imageFile, imageUrl>>
         ELSE /\ imageFile' = file
              /\ imageUrl' = <<>>
              /\ vaToast' = VaUploadedToast
    /\ UNCHANGED <<vaPrompt, analysis, vaIsLoading>>

\* <Textarea onChange={(e) => setPrompt(e.target.value)} disabled={isLoading}>
VaSetPrompt ==
    /\ UNCHANGED <<chatVars, editorVars, generatorVars, uploadVars>>
    /\ ~vaIsLoading
    /\ \E q \in QuestionSamples : q # vaPrompt /\ vaPrompt' = q
    /\ vaToast' = NoToast
    /\ UNCHANGED <<imageUrl, imageFile, analysis, vaIsLoading>>

\* the click on Analyze: validation, then setIsLoading(true), setAnalysis("")
HandleAnalyze ==
    /\ UNCHANGED <<chatVars, editorVars, generatorVars, uploadVars>>
    /\ AnalyzeEnabled
    /\ \E apiKey \in ApiKeys :
         IF Trim(imageUrl) = <<>> /\ imageFile = NoFile
         THEN /\ vaToast' = VaNoSourceToast
              /\ UNCHANGED <<analysis, vaIsLoading>>
         ELSE IF Trim(vaPrompt) = <<>>
         THEN /\ vaToast' = VaNoQuestionToast
              /\ UNCHANGED <<analysis, vaIsLoading>>
         ELSE IF apiKey = NoKey
         THEN /\ vaToast' = VaNoKeyToast
              /\ UNCHANGED <<analysis, vaIsLoading>>
         ELSE /\ vaIsLoading' = TRUE
              /\ analysis' = <<>>
              /\ vaToast' = NoToast
    /\ UNCHANGED <<imageUrl, imageFile, vaPrompt>>

\* a chunk with a content fragment: analysisText += content; setAnalysis(...)
AnalysisFragment ==
    /\ UNCHANGED <<chatVars, editorVars, generatorVars, uploadVars>>
    /\ vaIsLoading
    /\ Len(analysis) < MaxLines
    /\ \E c \in ContentChars : analysis' = analysis \o <<c>>
    /\ vaToast' = NoToast
    /\ UNCHANGED <<imageUrl, imageFile, vaPrompt, vaIsLoading>>

\* the stream ends: toast.success, finally setIsLoading(false)
AnalysisDone ==
    /\ UNCHANGED <<chatVars, editorVars, generatorVars, uploadVars>>
    /\ vaIsLoading
    /\ vaToast' = VaSuccessToast
    /\ vaIsLoading' = FALSE
    /\ UNCHANGED <<imageUrl, imageFile, vaPrompt, analysis>>

\* the image conversion, the request or a read fails: catch, finally
AnalysisFails ==
    /\ UNCHANGED <<chatVars, editorVars, generatorVars, uploadVars>>
    /\ vaIsLoading
    /\ vaToast' = VaErrorToast
    /\ analysis' = VaErrorText
    /\ vaIsLoading' = FALSE
    /\ UNCHANGED <<imageUrl, imageFile, vaPrompt>>

VisionNext ==
    \/ VaSetImageUrl
    \/ VaHandleFileUpload
    \/ VaSetPrompt
    \/ HandleAnalyze
    \/ AnalysisFragment
    \/ AnalysisDone
    \/ AnalysisFails

SpecVision == Init /\ [][VisionNext]_vars

-----------------------------------------------------------------------------
(* Properties of the streaming handler *)

\* the content fragment a well-formed data line carries
FragmentOf(line) == SubSeq(line, PrefixLen + 2, Len(line) - 1)

\* a data line whose payload is a delta document with non-empty content
CarriesFragment(line) ==
    /\ StartsWith(line, DataPrefix)
    /\ IsDeltaDoc(Slice(line, PrefixLen))
    /\ FragmentOf(line) # <<>>

\* a data line whose payload is neither the sentinel nor valid JSON
IsMalformedLine(line) ==
    /\ StartsWith(line, DataPrefix)
    /\ Slice(line, PrefixLen) # DoneSentinel
    /\ ~JSONParse(Slice(line, PrefixLen)).ok

\* the fragments carried by the lines of a list, in order
RECURSIVE FragmentsOf(_)
FragmentsOf(lines) ==
    IF lines = <<>> THEN <<>>
    ELSE (IF CarriesFragment(Head(lines)) THEN <<FragmentOf(Head(lines))>> ELSE <<>>)
         \o FragmentsOf(Tail(lines))

\* this step is reader.read() resolving with a chunk
ChunkStep == pc = "reading" /\ pc' = "reading" /\ pos' > pos /\ wire' = wire
\* the chunk that step delivers
StepChunk == SubSeq(wire, pos + 1, pos')

ErrorToasts == {i \in DOMAIN toasts : toasts[i].kind = "error"}
SuccessToasts == {i \in DOMAIN toasts : toasts[i].kind = "success"}

\* C1: chunking invariance: when the stream reports done after a body made
\* only of well-formed data lines carrying c1..cn, the buffer equals
\* c1+...+cn, however the body was cut into chunks.
C1_ChunkingInvariance ==
    outcome = "success" =>
        \A ls \in LineSeqs :
            (wire = Join(ls) /\ \A i \in DOMAIN ls : ls[i] \in WellFormedLines)
                => fullResponse = Flatten([i \in DOMAIN ls |-> FragmentOf(ls[i])])

\* C2: every value the read loop passes to setResponse is the concatenation,
\* in arrival order, of the fragments extracted so far; each emitted value is
\* the previous one with exactly one non-empty fragment appended.
C2_EmittedIsConcatenation ==
    /\ Len(emitted) = Len(extracted)
    /\ \A i \in DOMAIN emitted :
         /\ emitted[i] = Flatten(SubSeq(extracted, 1, i))
         /\ extracted[i] # <<>>
         /\ emitted[i] = (IF i = 1 THEN <<>> ELSE emitted[i - 1]) \o extracted[i]
    /\ (pc = "reading" /\ emitted # <<>>) => response = emitted[Len(emitted)]

\* two different fragments have been emitted, across two chunks
C2_Witness ==
    /\ pc = "reading"
    /\ reads = 3
    /\ extracted = <<(<<"a">>), (<<"b">>)>>
    /\ emitted = <<(<<"a">>), (<<"a", "b">>)>>

\* C3: after a read failure that follows at least one emitted fragment, the
\* visible response still contains the text accumulated before the failure.
C3_PartialBufferKept ==
    (outcome = "readError" /\ emitted # <<>>) => Includes(response, fullResponse)

\* C4: once a '[DONE]' line has been processed, no later fragment is
\* appended or emitted.
C4_DoneStopsAccumulation ==
    doneAt # -1 => (Len(extracted) = doneAt /\ Len(emitted) = doneAt)

\* every line of the chunk is the '[DONE]' line or blank, and one is '[DONE]'
OnlyDoneLines(chunk) ==
    LET ls == Split(chunk) IN
    /\ \A i \in DOMAIN ls : ls[i] \in {LineDone, <<>>}
    /\ \E i \in DOMAIN ls : ls[i] = LineDone

\* C5: processing a '[DONE]' line leaves the buffer unchanged, emits no new
\* value, never hands the sentinel to JSON.parse and raises no error.
C5_DoneLineIsInert ==
    /\ [](DoneSentinel \notin parsed)
    /\ [][(ChunkStep /\ OnlyDoneLines(StepChunk)) =>
             /\ fullResponse' = fullResponse
             /\ emitted' = emitted
             /\ response' = response
             /\ parsed' = {}
             /\ toasts' = toasts
             /\ outcome' = outcome
             /\ isLoading' = isLoading]_vars

\* a '[DONE]' line was processed in a chunk of its own, after a fragment
C5_Witness ==
    /\ pc = "reading"
    /\ wire = Join(<<LineA, LineDone>>)
    /\ pos = Len(wire)
    /\ reads = 3
    /\ doneAt = 1
    /\ fullResponse = <<"a">>
    /\ response = <<"a">>

\* a malformed data line is among the lines delivered up to position n
MalformedDelivered(n) ==
    LET ls == Split(SubSeq(wire, 1, n)) IN
    \E i \in DOMAIN ls : IsMalformedLine(ls[i])

\* C6: a data line that is not valid JSON is skipped: it changes neither the
\* buffer nor the emitted value, surfaces no error and does not end the
\* invocation; the well-formed lines of the same chunk and of later chunks
\* are still appended.
C6_MalformedLineSkipped ==
    [][(ChunkStep /\ MalformedDelivered(pos')) =>
          LET frags == FragmentsOf(Split(StepChunk)) IN
          /\ extracted' = extracted \o frags
          /\ fullResponse' = fullResponse \o Flatten(frags)
          /\ Len(emitted') = Len(emitted) + Len(frags)
          /\ response' = (IF frags = <<>> THEN response ELSE fullResponse')
          /\ toasts' = toasts
          /\ outcome' = outcome
          /\ isLoading' = TRUE]_vars

\* a malformed line and a well-formed line after it came in one chunk: the
\* payload was handed to JSON.parse, and the later fragment was appended
C6_Witness ==
    /\ pc = "reading"
    /\ wire = Join(<<LineMalformed, LineA>>)
    /\ pos = Len(wire)
    /\ reads = 2
    /\ Slice(LineMalformed, PrefixLen) \in parsed
    /\ fullResponse = <<"a">>
    /\ response = <<"a">>
    /\ toasts = <<>>

\* C7: a failed read is terminal and is not retried: the handler has
\* returned, with one error notification and no success notification, and
\* from then on this invocation reads, fetches and appends nothing.
C7_ReadFailureIsTerminal ==
    /\ [](outcome = "readError" =>
            /\ pc = "idle"
            /\ ~isLoading
            /\ Cardinality(ErrorToasts) = 1
            /\ SuccessToasts = {}
            /\ fetches = 1)
    /\ [][(pc = "reading" /\ outcome' = "readError") =>
             /\ reads' = reads
             /\ fetches' = fetches
             /\ extracted' = extracted
             /\ emitted' = emitted]_vars
    /\ [][(outcome = "readError" /\ outcome' = "readError") =>
             /\ reads' = reads
             /\ fetches' = fetches
             /\ extracted' = extracted
             /\ emitted' = emitted
             /\ toasts' = toasts]_vars

\* a read failed after a fragment had been emitted
C7_Witness ==
    /\ outcome = "readError"
    /\ emitted # <<>>
    /\ reads >= 2

\* the messages a non-OK response may carry according to the claim
ServerMessages == {b.message : b \in {x \in ErrorBodies : x.json /\ x.message # <<>>}}

\* C8: a non-success HTTP status is terminal: no reader is obtained, no
\* fragment is appended or emitted, and one error is surfaced, carrying the
\* server's error message or, when none is given, the HTTP status.
C8_NotOkIsTerminal ==
    outcome = "httpError" =>
        /\ pc = "idle"
        /\ reads = 0
        /\ emitted = <<>>
        /\ extracted = <<>>
        /\ Len(toasts) = 1
        /\ toasts[1].kind = "error"
        /\ \/ \E m \in ServerMessages : toasts[1] = ErrorToast(m)
           \/ toasts[1] = ErrorToast(HttpErrorMessage(httpStatus))

\* the lines of the body of the current response
WireLines == Split(wire)

\* a data line whose payload parses but whose content is absent or empty
ParsesWithoutContent(line) ==
    /\ line[1] = "d" /\ line[2] = "a" /\ line[3] = "t" /\ line[4] = "a"
    /\ line[5] = ":" /\ line[6] = " "
    /\ \/ SubSeq(line, 7, Len(line)) \in
             { <<JsonEmptyObject>>, <<JsonEmptyChoices>>, <<JsonEmptyDelta>> }
       \/ SubSeq(line, 7, Len(line)) = <<JsonOpen, JsonClose>>

\* how many of the lines carry a non-empty fragment
FragmentCount(lines) == Cardinality({k \in DOMAIN lines : CarriesFragment(lines[k])})

\* C19: a data line that parses but has no content, or the empty string as
\* content, or no choices, or an empty choices array, appends nothing, emits
\* nothing and raises no error; a chunk makes exactly one emission per line
\* with a non-empty fragment.
C19_EmptyContentIsInert ==
    [][ChunkStep =>
          \A lines \in {Split(StepChunk)} : \A n \in {FragmentCount(lines)} :
          /\ Len(emitted') = Len(emitted) + n
          /\ Len(extracted') = Len(extracted) + n
          /\ (n = 0 /\ \E k \in DOMAIN lines :
                          Len(lines[k]) >= 7 /\ ParsesWithoutContent(lines[k])) =>
                /\ fullResponse' = fullResponse
                /\ emitted' = emitted
                /\ response' = response
                /\ toasts' = toasts
                /\ outcome' = outcome
                /\ isLoading' = isLoading]_vars

\* a chunk of two lines without content (an empty choices array, a delta
\* without content) was processed: both were parsed, nothing was emitted
C19_Witness ==
    /\ pc = "reading"
    /\ wire = Join(<<LineEmptyChoices, LineNoContent>>)
    /\ pos = Len(wire)
    /\ reads = 2
    /\ parsed = {<<JsonEmptyChoices>>, <<JsonEmptyDelta>>}
    /\ emitted = <<>>
    /\ response = <<>>
    /\ toasts = <<>>

\* the line does not begin with the six characters of 'data: '
LacksDataPrefix(line) ==
    \/ Len(line) < 6
    \/ <<line[1], line[2], line[3], line[4], line[5], line[6]>>
          # <<"d", "a", "t", "a", ":", " ">>

\* C20: a line that does not begin with 'data: ' is ignored: nothing of it
\* is handed to JSON.parse, and a chunk made only of such lines changes
\* neither the buffer nor the emitted values nor the displayed response.
C20_UnprefixedLineIgnored ==
    [][ChunkStep =>
          \A lines \in {Split(StepChunk)} :
          /\ \A d \in parsed' :
                \E k \in DOMAIN lines :
                   ~LacksDataPrefix(lines[k]) /\ d = SubSeq(lines[k], 7, Len(lines[k]))
          /\ (\A k \in DOMAIN lines : LacksDataPrefix(lines[k])) =>
                /\ parsed' = {}
                /\ fullResponse' = fullResponse
                /\ emitted' = emitted
                /\ extracted' = extracted
                /\ response' = response
                /\ doneAt' = doneAt
                /\ toasts' = toasts
                /\ outcome' = outcome]_vars

\* a blank line and a 'data:' line without the space, whose payload would
\* carry "a", were processed: nothing was parsed, nothing emitted
C20_Witness ==
    /\ pc = "reading"
    /\ wire = Join(<<LineBlank, LineNoSpace>>)
    /\ pos = Len(wire)
    /\ reads >= 2
    /\ parsed = {}
    /\ emitted = <<>>
    /\ fullResponse = <<>>

\* C17: an invocation starts from an empty buffer: the displayed response is
\* empty from the moment the request is issued until the first fragment of
\* this response is emitted, and every value the invocation emits is made
\* only of fragments carried by lines of its own response body, never of an
\* earlier invocation's text or of the error text.
C17_StartsFromEmptyBuffer ==
    /\ (pc = "fetching" => (response = <<>> /\ emitted = <<>>))
    /\ (pc = "reading" =>
            response = (IF emitted = <<>> THEN <<>> ELSE emitted[Len(emitted)]))
    /\ (pc # "idle" =>
          \A i \in DOMAIN emitted :
             /\ i \in DOMAIN extracted
             /\ emitted[i] = Flatten(SubSeq(extracted, 1, i))
             /\ \E k \in DOMAIN WireLines :
                  /\ CarriesFragment(WireLines[k])
                  /\ extracted[i] = FragmentOf(WireLines[k])
             /\ ~Includes(emitted[i], ErrorText))

\* after an earlier invocation that produced "a", this invocation received
\* a body carrying only "b" and has emitted "b" alone
C17_Witness ==
    /\ pc = "reading"
    /\ wire = Join(<<LineB>>)
    /\ pos = Len(wire)
    /\ emitted = << <<"b">> >>
    /\ response = <<"b">>

\* C18: at most one invocation of the handler is in flight in a component:
\* while one is, the loading flag is set (and with it the button disabled),
\* so no second invocation starts and the values emitted are those of one
\* invocation.
C18_OneInvocationInFlight ==
    /\ inFlight \in {0, 1}
    /\ (inFlight = 1 <=> pc # "idle")
    /\ (inFlight = 1 => isLoading)
    /\ (inFlight = 0 => ~isLoading)

\* an invocation is streaming, a prompt is in the textarea, and only the
\* loading flag keeps the button disabled
C18_Witness ==
    /\ inFlight = 1
    /\ pc = "reading"
    /\ emitted # <<>>
    /\ Trim(prompt) # <<>>
    /\ isLoading

\* C21: an invocation that set the loading flag clears it again, on the
\* success path and on every failure path, once the transport has settled
\* what the handler awaits; and the flag is set all the time the handler is
\* between its request and its return.
C21_LoadingFlagCleared ==
    /\ [](pc # "idle" => isLoading)
    /\ (isLoading ~> ~isLoading)

\* a stream was read in two chunks to done and the flag is cleared
C21_Witness ==
    /\ outcome = "success"
    /\ reads = 3
    /\ emitted # <<>>
    /\ ~isLoading

\* C22: an invocation that passed validation ends with exactly one
\* notification: the success notification if the stream was read to done,
\* an error notification otherwise; none is shown before the end, and nothing
\* is emitted once the success notification is shown.
C22_OneTerminalNotification ==
    /\ [](pc # "idle" => toasts = <<>>)
    /\ [](outcome \notin {"none", "invalid"} =>
            /\ pc = "idle"
            /\ Len(toasts) = 1
            /\ (outcome = "success" => toasts[1] = SuccessToast)
            /\ (outcome # "success" => toasts[1].kind = "error"))
    /\ [][(SuccessToasts = {} /\ SuccessToasts' # {}) =>
             /\ pc = "reading"
             /\ pos = Len(wire)
             /\ outcome' = "success"
             /\ emitted' = emitted
             /\ response' = response]_vars
    /\ [][(SuccessToasts # {} /\ SuccessToasts' # {}) =>
             /\ emitted' = emitted
             /\ response' = response]_vars

\* a stream of two fragments was read to done and announced once
C22_Witness ==
    /\ outcome = "success"
    /\ toasts = <<SuccessToast>>
    /\ Len(emitted) = 2
    /\ response = emitted[2]

\* C23: a click that fails validation issues no request and leaves the
\* response and the loading flag as they were: a response displayed by an
\* earlier invocation stays displayed.
C23_InvalidClickChangesNothing ==
    [][outcome' = "invalid" =>
         /\ response' = response
         /\ isLoading' = isLoading
         /\ pc' = pc
         /\ inFlight' = inFlight
         /\ (toasts' # toasts => (fetches' = 0 /\ toasts' \in {<<NoPromptToast>>, <<NoKeyToast>>}))]_vars

\* a click without a stored key while an earlier response is displayed
C23_Witness ==
    /\ outcome = "invalid"
    /\ toasts = <<NoKeyToast>>
    /\ fetches = 0
    /\ response = <<"a">>
    /\ ~isLoading

\* C16: once the component is unmounted, the in-flight invocation is
\* abandoned: it issues no further read and passes no further value to
\* setResponse, whatever the transport delivers.
C16_UnmountAbandonsStream ==
    [][~mounted => (emitted' = emitted /\ reads' = reads)]_vars

-----------------------------------------------------------------------------
(* Properties of removeBackground *)

\* the number of pixels of the canvas passed to segmentation
CanvasPixels == canvas.width * canvas.height

\* the mask loop has run: the output canvas holds its result
MaskApplied == outputCanvas # NoCanvas

\* a is Math.round of (1 - score) * 255: the integer with a - 1/2 <= x < a + 1/2
IsRoundedInverse(a, score) ==
    LET x2 == 2 * (score.den - score.num) * 255 IN
    /\ 2 * score.den * a - score.den <= x2
    /\ x2 < 2 * score.den * a + score.den

\* C9: when the mask has one score per pixel, every output pixel i has alpha
\* round((1 - mask[i]) * 255) and the R, G, B of the source pixel.
C9_MaskCompositor ==
    (MaskApplied /\ Len(mask) = CanvasPixels) =>
        /\ Len(outputCanvas.data) = 4 * CanvasPixels
        /\ \A i \in 0..(CanvasPixels - 1) :
             /\ IsRoundedInverse(outputCanvas.data[4 * i + 4], mask[i + 1])
             /\ \A c \in 1..3 :
                  /\ outputCanvas.data[4 * i + c] = canvas.data[4 * i + c]
                  /\ outputCanvas.data[4 * i + c] = ChannelOf(image, i, c - 1)

\* a 2x2 image was composited with a mask of four scores, one of them 3/8,
\* and the result was handed over
C9_Witness ==
    /\ rbOutcome = "success"
    /\ image.width = 2
    /\ image.height = 2
    /\ Len(mask) = 4
    /\ mask[1] = [num |-> 1, den |-> 1]
    /\ mask[2] = [num |-> 3, den |-> 8]
    /\ mask[4] = [num |-> 1, den |-> 2]
    /\ outputCanvas.data[4] = 0
    /\ outputCanvas.data[8] = 159
    /\ outputCanvas.data[16] = 128
    /\ outputCanvas.data[8] # canvas.data[8]

\* C10: when the mask length differs from width*height of the canvas,
\* removeBackground fails and produces no output: no blob is resolved and
\* editedImage is not set.
C10_ShapeMismatchFails ==
    (rbOutcome = "success" /\ editedImage # NoUrl) => Len(mask) = CanvasPixels

\* the pixels the mask loop wrote: those the mask and the canvas both have
MaskedPixels ==
    0..((IF Len(mask) < CanvasPixels THEN Len(mask) ELSE CanvasPixels) - 1)

\* C13: a score of 0 gives alpha 255, a score of 1 gives alpha 0, a score of
\* 1/2 gives alpha 128 (the tie 127.5 rounds up), and every byte of the
\* output, the alpha bytes included, lies in 0..255.
C13_AlphaBoundaries ==
    MaskApplied =>
        /\ \A k \in DOMAIN outputCanvas.data : outputCanvas.data[k] \in 0..255
        /\ \A i \in MaskedPixels :
             LET score == mask[i + 1]
                 alpha == outputCanvas.data[4 * i + 4]
             IN  /\ (score.num = 0 => alpha = 255)
                 /\ (score.num = score.den => alpha = 0)
                 /\ (2 * score.num = score.den => alpha = 128)

\* a 3x1 image was composited with the scores 0, 1 and 1/2
C13_Witness ==
    /\ MaskApplied
    /\ image.width = 3
    /\ image.height = 1
    /\ mask = << [num |-> 0, den |-> 1], [num |-> 1, den |-> 1],
                 [num |-> 1, den |-> 2] >>
    /\ outputCanvas.data[4] = 255
    /\ outputCanvas.data[8] = 0
    /\ outputCanvas.data[12] = 128

\* C14: when toBlob gives no blob, removeBackground rejects: the handler
\* ends with editedImage as it was, no object URL made, the failure toast as
\* its only toast and the processing flag cleared.
C14_NoBlobFails ==
    [][rbOutcome' = "encodingError" =>
          /\ rbPc = "encoding"
          /\ editedImage' = editedImage
          /\ blobUrls' = blobUrls
          /\ rbToasts' = <<RbFailToast>>
          /\ rbPc' = "idle"
          /\ ~isProcessing']_vars

\* an earlier run gave an edited image; this one failed at toBlob and the
\* edited image is still the earlier one
C14_Witness ==
    /\ rbOutcome = "encodingError"
    /\ editedImage = ObjectUrl(1)
    /\ blobUrls = 1
    /\ rbToasts = <<RbFailToast>>
    /\ ~isProcessing

\* the ways handleRemoveBackground fails
RbFailures ==
    {"fetchError", "loadError", "noContext", "pipelineError", "invalidResult",
     "segmenterError", "encodingError"}

\* C29: whatever makes handleRemoveBackground fail, the edited image keeps
\* the value it had, one failure notification is shown and isProcessing is
\* false again; the edited image changes only when removeBackground has
\* resolved a blob.
C29_FailureKeepsEditedImage ==
    /\ [](rbOutcome \in RbFailures =>
            /\ rbPc = "idle"
            /\ ~isProcessing
            /\ rbToasts = <<RbFailToast>>)
    /\ [][rbOutcome' \in RbFailures =>
             /\ editedImage' = editedImage
             /\ blobUrls' = blobUrls]_vars
    /\ [][editedImage' # editedImage =>
             /\ rbPc = "encoding"
             /\ rbOutcome' = "success"
             /\ blobUrls' = blobUrls + 1
             /\ editedImage' = ObjectUrl(blobUrls')]_vars

\* an earlier run gave an edited image; this one got a result without a
\* mask and the edited image is still the earlier one
C29_Witness ==
    /\ rbOutcome = "invalidResult"
    /\ editedImage = ObjectUrl(1)
    /\ rbToasts = <<RbFailToast>>
    /\ ~isProcessing
    /\ rbPc = "idle"

-----------------------------------------------------------------------------
(* Properties of resizeImageIfNeeded and of the size of the output *)

\* r is num/den rounded to the nearest integer, ties up: r - 1/2 <= num/den
\* and num/den < r + 1/2
IsNearestInteger(r, num, den) ==
    /\ (2 * r - 1) * den <= 2 * num
    /\ 2 * num < (2 * r + 1) * den

\* resizeImageIfNeeded has returned
Resized == rbPc \in {"segmenting", "encoding"}

\* C11: an image wider or higher than 1024 gives a canvas whose side along
\* the larger side of the image is exactly 1024 and whose other side is the
\* smaller side times 1024 over the larger side, rounded; a square image
\* gives 1024 by 1024; and the function returns true.
C11_OversizeScaledToLimit ==
    (Resized /\ (image.width > 1024 \/ image.height > 1024)) =>
        /\ wasResized
        /\ IF image.width >= image.height
           THEN /\ canvas.width = 1024
                /\ IsNearestInteger(canvas.height, image.height * 1024, image.width)
           ELSE /\ canvas.height = 1024
                /\ IsNearestInteger(canvas.width, image.width * 1024, image.height)
        /\ (image.width = image.height => canvas.width = 1024 /\ canvas.height = 1024)

C11_Witness ==
    /\ Resized
    /\ image.width = 2000 /\ image.height = 1000
    /\ canvas.width = 1024 /\ canvas.height = 512

\* C12: an image of at most 1024 by 1024 (1024 included) gives a canvas of
\* the size of the image, and the function returns false.
C12_WithinLimitUnchanged ==
    (Resized /\ image.width <= 1024 /\ image.height <= 1024) =>
        /\ canvas.width = image.width
        /\ canvas.height = image.height
        /\ ~wasResized

C12_Witness ==
    /\ Resized
    /\ image.width = 1024 /\ image.height = 600
    /\ canvas.width = 1024 /\ canvas.height = 600
    /\ ~wasResized

\* C15: the output canvas has the width and the height of the canvas that
\* was passed to segmentation, resized or not.
C15_OutputSizeIsCanvasSize ==
    rbPc = "encoding" =>
        /\ outputCanvas.width = canvas.width
        /\ outputCanvas.height = canvas.height
        /\ canvas.width = ResizeImageIfNeeded(image).width
        /\ canvas.height = ResizeImageIfNeeded(image).height

C15_Witness ==
    /\ rbPc = "encoding"
    /\ wasResized
    /\ image.width = 2000 /\ image.height = 1000
    /\ outputCanvas.width = 1024 /\ outputCanvas.height = 512

\* C24: for every image with positive width and height the canvas that
\* resizeImageIfNeeded leaves has a width and a height from 1 to 1024.
C24_CanvasSidesWithinRange ==
    Resized =>
        /\ 1 <= canvas.width /\ canvas.width <= MAX_IMAGE_DIMENSION
        /\ 1 <= canvas.height /\ canvas.height <= MAX_IMAGE_DIMENSION

-----------------------------------------------------------------------------
(* Properties of ImageGenerator *)

\* the Image of request r fires onload
OnloadOf(r) ==
    /\ r \in igPending
    /\ igPending' = igPending \ {r}
    /\ igToasts' = Append(igToasts, IgSuccessToast)

\* the Image of request r fires onerror
OnerrorOf(r) ==
    /\ r \in igPending
    /\ igPending' = igPending \ {r}
    /\ generatedImage' = generatedImage

\* C26: once a later request has been started, the onload callback of an
\* earlier request does not put the earlier request's URL into
\* generatedImage.
C26_StaleOnloadIgnored ==
    [][\A r \in igPending :
          (OnloadOf(r) /\ r.req < igStarted /\ r.url # igLatestUrl) =>
              generatedImage' # r.url]_vars

\* C27: isLoading is true as long as an image load started by handleGenerate
\* has fired neither onload nor onerror, and an onerror adds an error
\* notification.
C27_LoadingUntilCallback ==
    /\ [](igPending # {} => igIsLoading)
    /\ [][\A r \in igPending :
             OnerrorOf(r) =>
                 /\ Len(igToasts') = Len(igToasts) + 1
                 /\ igToasts'[Len(igToasts')].kind = "error"]_vars

-----------------------------------------------------------------------------
(* Properties of DocumentAnalyzer *)

\* C25: the list of uploaded files never holds more than 3 entries, whatever
\* the file selections, the completions of the file reads and the removals,
\* and in whatever order they come.
C25_AtMostThreeFiles == Len(uploadedFiles) <= 3

\* a selection of three files, a PDF between two images, has been read in
\* full
C25_Witness ==
    /\ uploadedFiles = <<"image", "pdf", "image">>
    /\ uploads = <<>>
    /\ ~isUploading
    /\ upToasts = <<"success">>

-----------------------------------------------------------------------------
(* Properties of VisionAnalyzer *)

\* C28: the image URL and the uploaded image file are never both set: a
\* non-empty imageUrl and a non-null imageFile do not hold together, whatever
\* the URL edits and the file selections.
C28_UrlAndFileExclusive == ~(imageUrl # <<>> /\ imageFile # NoFile)

\* an analysis has been shown, and an image file has just been selected
C28_Witness ==
    /\ imageFile \in FilePicks
    /\ imageUrl = <<>>
    /\ analysis # <<>>
    /\ vaToast = VaUploadedToast

=============================================================================
